---- MODULE Spec2Model ----
(***************************************************************************)
(* Model of the exchange REST clients of the repository, of the game      *)
(* services of phoenix_bot and of the API checker.                         *)
(*                                                                         *)
(*   RootAPI       src/bingx_api.py                     class BingXAPI     *)
(*   AppAPI        src/src/api/bingx_api.py             class BingXAPI     *)
(*   BackupClient  src/backup/bingx_client_updated.py   class BingXClient  *)
(*                                                                         *)
(* Spec      one caller driving one client through its typed operations;   *)
(*           the server answers each transport attempt with a status, a    *)
(*           connection failure, silence, or (if the call carries a        *)
(*           timeout) a timeout.                                           *)
(* SpecGate  several threads sharing one RootAPI instance and going        *)
(*           through _enforce_rate_limit under a discrete clock.           *)
(* SpecLifecycle  the application constructing clients with any            *)
(*           credentials and mode, using them and replacing them.          *)
(* SpecInstances  several RootAPI instances, each with its own caller.     *)
(* SpecGame  GameService, UserService and AdminService of                  *)
(*           src/phoenix_bot/src/application over one user repository,     *)
(*           one session repository and one cache.                         *)
(* SpecBonus UserService.claim_daily_bonus under a clock.                  *)
(* SpecChecker  ApiChecker.check_all_apis of src/api_initializer.py        *)
(*           (src/api_checker.py is the same without test_endpoint).       *)
(*                                                                         *)
(* Library behaviour the clients rely on is modelled as documented:        *)
(*   urllib3.util.retry.Retry: total = number of RETRIES; a response is    *)
(*     retried when the method is in DEFAULT_ALLOWED_METHODS and the       *)
(*     status is in status_forcelist, or (total still non-zero) the        *)
(*     response has a Retry-After header and its status is in              *)
(*     RETRY_AFTER_STATUS_CODES; connection errors are retried for every   *)
(*     method, read errors for allowed methods only.                       *)
(*   requests: no timeout argument means wait forever.                     *)
(*   aiohttp.ClientSession: default total timeout of 300 s.                *)
(*   hmac/sha256: an injective function of (key, message).                 *)
(***************************************************************************)
EXTENDS Integers, Sequences, FiniteSets, TLC

(***************************************************************************)
(* Bounds of the model.                                                    *)
(***************************************************************************)
\* number of distinct values time.time() may return to a call
MaxStamp == 2
\* number of threads sharing one client in SpecGate
NumThreads == 2
\* last tick of the discrete clock in SpecGate
MaxTime == 2
\* longest time a transport call stays in flight in SpecGate
MaxFlight == 2
\* number of clients the application constructs in SpecLifecycle
MaxClients == 3
\* number of client instances living side by side in SpecInstances
NumInstances == 2
\* SpecGame: registered users, coroutines running at once, sessions
\* created, service calls made
NumUsers == 3
NumTasks == 2
MaxSessions == 1
MaxCalls == 4
\* SpecBonus: how far the clock runs, in hours
MaxClock == 24
\* SpecChecker: check_all_apis calls made on the ApiChecker
MaxChecks == 3

(***************************************************************************)
(* Program constants.                                                      *)
(***************************************************************************)
\* Retry(total=3, ...)
RETRY_TOTAL == 3
\* config.RATE_LIMIT_DELAY, in clock ticks of 100 ms
RATE_LIMIT_DELAY == 2
\* config.REQUEST_TIMEOUT, seconds
REQUEST_TIMEOUT == 30
\* aiohttp.ClientTimeout default total, seconds
AIOHTTP_DEFAULT_TIMEOUT == 300
\* requests without a timeout argument
NoTimeout == 0
\* code of the error responses BackupClient fabricates
FALLBACK_ERROR_CODE == 100400
\* a non-zero provider code as the exchange sends it (get_ticker tests for it)
PROVIDER_ERROR_CODE == 100400

\* GameConfig (src/phoenix_bot/src/core/config.py)
INITIAL_CHIPS == 500
MIN_BET == 10
MAX_BET == 10000
DAILY_BONUS == 100
MAX_DAILY_BONUS_MULTIPLIER == 10
\* chips per referral in UserService.claim_daily_bonus
REFERRAL_BONUS == 10
\* timedelta(days=1), in hours
DAY == 24

STATUS_FORCELIST == {429, 500, 502, 503, 504}
DEFAULT_ALLOWED_METHODS == {"HEAD", "GET", "PUT", "DELETE", "OPTIONS", "TRACE"}
RETRY_AFTER_STATUS_CODES == {413, 429, 503}

Variants == {"RootAPI", "AppAPI", "BackupClient"}

(***************************************************************************)
(* Parameter mappings are Python dicts: sequences of <<key, value>> in     *)
(* insertion order with distinct keys.  sorted() orders them by key in     *)
(* byte order; SortedKeys lists the keys in that order.                    *)
(***************************************************************************)
SortedKeys ==
    <<"leverage", "listenKey", "orderId", "positionSide", "quantity", "side",
      "signature", "symbol", "timestamp", "type">>

KeyRank(k) == CHOOSE i \in 1..Len(SortedKeys) : SortedKeys[i] = k

RECURSIVE InsertSorted(_, _)
InsertSorted(pair, s) ==
    IF s = <<>> THEN <<pair>>
    ELSE IF KeyRank(pair[1]) <= KeyRank(Head(s)[1])
         THEN <<pair>> \o s
         ELSE <<Head(s)>> \o InsertSorted(pair, Tail(s))

RECURSIVE SortItems(_)
SortItems(s) ==
    IF s = <<>> THEN <<>> ELSE InsertSorted(Head(s), SortItems(Tail(s)))

\* dict[key] = value: replaces in place, or appends
RECURSIVE DictSet(_, _, _)
DictSet(d, k, v) ==
    IF d = <<>> THEN << <<k, v>> >>
    ELSE IF Head(d)[1] = k THEN << <<k, v>> >> \o Tail(d)
         ELSE <<Head(d)>> \o DictSet(Tail(d), k, v)

Items(d) == {d[i] : i \in 1..Len(d)}

\* every insertion order of the mapping with the items of d
Reorderings(d) ==
    {[i \in 1..Len(d) |-> d[p[i]]] : p \in Permutations(1..Len(d))}

\* hmac.new(secret, query_string, sha256).hexdigest()
Hmac(secret, query_string) == [key |-> secret, msg |-> query_string]

\* str(int(time.time() * 1000)) for the t-th value the clock may return
Stamp(t) == ToString(t)
Stamps == {Stamp(t) : t \in 1..MaxStamp}

(***************************************************************************)
(* Typed operations: thin builders of method, endpoint and parameters.     *)
(***************************************************************************)
Op(name, method, signed, endpoint, params) ==
    [name |-> name, method |-> method, signed |-> signed,
     endpoint |-> endpoint, params |-> params]

RootOps ==
    { Op("get_balance", "GET", TRUE, "/openApi/swap/v3/user/balance", <<>>),
      Op("place_order", "POST", TRUE, "/openApi/swap/v2/trade/order",
         << <<"symbol", "BTC-USDT">>, <<"side", "BUY">>, <<"type", "MARKET">>,
            <<"quantity", "0.001">>, <<"positionSide", "LONG">> >>),
      Op("cancel_order", "DELETE", TRUE, "/openApi/swap/v2/trade/cancel",
         << <<"symbol", "BTC-USDT">>, <<"orderId", "1">> >>),
      Op("extend_listen_key", "PUT", TRUE, "/openApi/user/auth/userDataStream",
         << <<"listenKey", "lk">> >>),
      Op("get_ticker", "GET", FALSE, "/openApi/swap/v2/quote/ticker/price",
         << <<"symbol", "BTC-USDT">> >>) }

AppOps ==
    { Op("validate_credentials", "GET", TRUE, "/openApi/swap/v3/user/balance", <<>>),
      Op("get_balance", "GET", TRUE, "/openApi/swap/v3/user/balance", <<>>),
      Op("place_order", "POST", TRUE, "/openApi/swap/v2/trade/order",
         << <<"symbol", "BTC-USDT">>, <<"side", "BUY">>, <<"type", "LIMIT">>,
            <<"quantity", "0.001">>, <<"positionSide", "BOTH">> >>),
      Op("cancel_order", "DELETE", TRUE, "/openApi/swap/v2/trade/order",
         << <<"symbol", "BTC-USDT">>, <<"orderId", "1">> >>),
      Op("get_income_history", "GET", TRUE, "/openApi/swap/v2/user/income", <<>>),
      Op("get_market_price", "GET", FALSE, "/openApi/swap/v1/ticker/price",
         << <<"symbol", "BTC-USDT">> >>) }

BackupOps ==
    { Op("get_balance", "GET", TRUE, "/openApi/swap/v3/user/balance", <<>>),
      Op("get_positions", "GET", TRUE, "/openApi/swap/v2/user/positions", <<>>),
      Op("place_order", "POST", TRUE, "/openApi/swap/v2/trade/order",
         << <<"symbol", "BTC-USDT">>, <<"side", "BUY">>, <<"type", "MARKET">>,
            <<"positionSide", "BOTH">>, <<"quantity", "0.001">>,
            <<"leverage", "1">> >>),
      Op("cancel_order", "DELETE", TRUE, "/openApi/swap/v2/trade/order",
         << <<"symbol", "BTC-USDT">>, <<"orderId", "1">> >>),
      Op("get_orderbook", "GET", FALSE, "/openApi/swap/v2/quote/depth",
         << <<"symbol", "BTC-USDT">> >>) }

OpsOf(v) ==
    CASE v = "RootAPI" -> RootOps
      [] v = "AppAPI" -> AppOps
      [] v = "BackupClient" -> BackupOps

NoCall == Op("", "", FALSE, "", <<>>)

(***************************************************************************)
(* Request building.                                                       *)
(***************************************************************************)
\* the string handed to the HMAC, as a sequence of key=value pairs
QueryString(v, d) ==
    IF v = "AppAPI" THEN d            \* urlencode(params): insertion order
    ELSE SortItems(d)                 \* sorted(params.items())

\* (a client that signs first and injects the timestamp afterwards)
ParamsToSign_BeforeStamp(v, d, ts) == d

\* the parameter mapping at the moment it is signed
ParamsToSign(v, d, ts) == DictSet(d, "timestamp", ts)

\* the parameter mapping that is sent, before the signature is appended
ParamsToSend(v, d, ts) == DictSet(d, "timestamp", ts)

Signature(v, d, ts, secret) ==
    Hmac(secret, QueryString(v, ParamsToSign(v, d, ts)))

\* the query (or form body) that goes on the wire
WireQuery(v, op, ts, secret) ==
    IF ~op.signed THEN op.params
    ELSE IF v = "RootAPI"
         THEN QueryString(v, ParamsToSign(v, op.params, ts))
              \o << <<"signature", Signature(v, op.params, ts, secret)>> >>
         ELSE DictSet(ParamsToSend(v, op.params, ts), "signature",
                      Signature(v, op.params, ts, secret))

\* timeout the transport call is given
TimeoutOf(v) ==
    CASE v = "RootAPI" -> REQUEST_TIMEOUT          \* timeout=config.REQUEST_TIMEOUT
      [] v = "AppAPI" -> NoTimeout                 \* requests.get(url, params=, headers=)
      [] v = "BackupClient" -> AIOHTTP_DEFAULT_TIMEOUT

\* no X-BX-APIKEY header on the request
NoHeader == ""

\* (a client that authenticates with its secret key)
HeaderOf_Secret(v, op, key, secret) == secret

\* the value of the X-BX-APIKEY header: set on the session (RootAPI), built
\* for every request (AppAPI), built by the signed operations (BackupClient)
HeaderOf(v, op, key, secret) ==
    IF v = "BackupClient" /\ ~op.signed THEN NoHeader ELSE key

NoWire == [method |-> "", query |-> <<>>, timeout |-> NoTimeout, header |-> NoHeader]

BuildWire(v, op, ts, key, secret) ==
    [method |-> op.method, query |-> WireQuery(v, op, ts, secret),
     timeout |-> TimeoutOf(v), header |-> HeaderOf(v, op, key, secret)]

(***************************************************************************)
(* Values a call hands back to its caller.                                 *)
(***************************************************************************)
Return(shape, code, data) ==
    [kind |-> "return", exc |-> "", shape |-> shape, code |-> code, data |-> data]
Raise(exc) ==
    [kind |-> "raise", exc |-> exc, shape |-> "", code |-> 0, data |-> ""]
NoResult == [kind |-> "none", exc |-> "", shape |-> "", code |-> 0, data |-> ""]

\* _get_demo_data: dispatch on a substring of the endpoint; the income rows
\* carry int(time.time() * 1000)
DemoData(endpoint, ts) ==
    CASE endpoint = "/openApi/swap/v3/user/balance" -> Return("dict", 0, "balances")
      [] endpoint = "/openApi/swap/v2/user/income" -> Return("dict", 0, ts)
      [] endpoint = "/openApi/swap/v1/ticker/price" -> Return("dict", 0, "price")
      [] OTHER -> Return("dict", 0, "{}")

(***************************************************************************)
(* Response handling.  A body is "ok" (JSON with code 0), "apierr" (JSON   *)
(* with a non-zero provider code), "empty" or "text" (not JSON).           *)
(***************************************************************************)
Bodies == {"ok", "apierr", "empty", "text"}
ServerStatuses == {200, 404, 413, 429, 500, 503}
\* statuses the server may accompany with a Retry-After header
RetryAfterSenders == {404, 413, 503}
\* <<status, has Retry-After header>>
ServerResponses ==
    {<<s, FALSE>> : s \in ServerStatuses} \cup {<<s, TRUE>> : s \in RetryAfterSenders}

Parsed(body) ==
    IF body = "ok" THEN Return("dict", 0, "payload")
    ELSE Return("dict", PROVIDER_ERROR_CODE, "error")

\* RootAPI._create_signed_request / _create_unsigned_request, after the
\* session returned a response
RootHandle(status, body) ==
    IF status >= 400 THEN Raise("HTTPError")                 \* raise_for_status
    ELSE IF body = "empty" THEN Return("dict", 0, "{}")
    ELSE IF body = "text" THEN Raise("JSONDecodeError")      \* no e.response: re-raised
    ELSE Parsed(body)

\* AppAPI._make_request, after requests returned a response; every failure
\* leaves as a plain Exception, told apart only by its message
AppHandle(status, body) ==
    IF status # 200 THEN Raise("Exception: HTTP Error")
    ELSE IF body \in {"empty", "text"} THEN Raise("Exception: Invalid JSON response")
    ELSE IF body = "apierr" THEN Raise("Exception: API Error")
    ELSE Parsed(body)

\* BackupClient: result = await resp.json(), whatever the status
BackupHandle(status, body) ==
    IF body = "text" THEN Raise("ContentTypeError")
    ELSE IF body = "empty" THEN Return("None", 0, "")
    ELSE Parsed(body)

Handle(v, status, body) ==
    CASE v = "RootAPI" -> RootHandle(status, body)
      [] v = "AppAPI" -> AppHandle(status, body)
      [] v = "BackupClient" -> BackupHandle(status, body)

\* (a client whose public ticker call wraps what its request raised)
Finish_WrapsTicker(v, name, r) ==
    IF name = "get_ticker" /\ r.kind = "raise"
    THEN Return("dict", 0, "raw_response")
    ELSE r

\* what the typed operation makes of the outcome of its request
Finish(v, name, r) ==
    IF v = "AppAPI" /\ name = "validate_credentials"
    THEN IF r.kind = "raise" THEN Return("bool", 0, "False")     \* except Exception
         ELSE Return("bool", 0, IF r.code = 0 THEN "True" ELSE "False")
    ELSE IF v = "BackupClient" /\ name = "get_positions"
    THEN IF r.kind = "raise" \/ r.shape = "None"                 \* None.get raises
         THEN Return("dict", FALLBACK_ERROR_CODE, "[]")
         ELSE r
    ELSE r

(***************************************************************************)
(* Retry policy of the RootAPI session:                                    *)
(*   Retry(total=3, backoff_factor=1, status_forcelist=[429,500,502,503,   *)
(*   504]) mounted on the session.  The other clients never retry.         *)
(***************************************************************************)
\* Retry.is_retry(method, status_code, has_retry_after)
IsRetry(method, status, retry_after, total) ==
    /\ method \in DEFAULT_ALLOWED_METHODS
    /\ \/ status \in STATUS_FORCELIST
       \/ total # 0 /\ retry_after /\ status \in RETRY_AFTER_STATUS_CODES

\* may a failed attempt (no response) be retried?  Connection errors: any
\* method; read errors: allowed methods only
IsErrorRetry(method, kind) ==
    \/ kind \in {"refused", "connect_timeout"}
    \/ kind = "read_timeout" /\ method \in DEFAULT_ALLOWED_METHODS

\* retries the session starts a call with
InitialRetries(v) == IF v = "RootAPI" THEN RETRY_TOTAL ELSE 0

\* (a retry counter that gives up one retry late)
Exhausted_Late(total) == total - 1 < -1

\* Retry.increment(): one retry is used up; exhausted when below zero
Exhausted(total) == total - 1 < 0

\* the exception requests raises for a failed attempt that is not retried
\* (retried = FALSE) or whose retries are exhausted (retried = TRUE)
TransportException(v, kind, retried) ==
    CASE v = "RootAPI" ->
           IF kind = "refused" THEN Raise("ConnectionError")
           ELSE IF kind = "connect_timeout" THEN Raise("ConnectTimeout")
           ELSE IF retried THEN Raise("ConnectionError")   \* MaxRetryError(ReadTimeoutError)
           ELSE Raise("ReadTimeout")
      [] v = "AppAPI" -> Raise("Exception: Request failed")
      [] v = "BackupClient" ->
           IF kind = "refused" THEN Raise("ClientConnectorError")
           ELSE Raise("TimeoutError")

FailureKinds == {"refused", "connect_timeout", "read_timeout"}

\* one entry of the attempt log; body is kept for the response the call
\* ends with (the body of a retried response is drained unread)
Outcome(kind, status, retry_after, body) ==
    [kind |-> kind, status |-> status, retry_after |-> retry_after, body |-> body]

(***************************************************************************)
(* State of one client and of the call its caller is in.                   *)
(***************************************************************************)
VARIABLES
    variant,        \* which client class
    mode,           \* BackupClient.mode, "swap" or "spot"
    demo_mode,      \* AppAPI.demo_mode; the other clients have no demo mode
    api_key,        \* the API key the client was constructed with
    secret_key,     \* the secret key the client was constructed with
    pc,             \* "idle", "ready", "inflight", "done"; SpecLifecycle: also
                    \* "new" (no client yet), "rejected" (constructor raised)
    call,           \* the typed operation being executed
    stamp,          \* the timestamp the call read from the clock
    wire,           \* the request as it goes to the transport
    retries,        \* Retry.total left for this call
    attempts,       \* transport attempts made by this call
    log,            \* outcomes of the attempts of this call, in order
    result,         \* what the call hands back
    net_touched,    \* has this client ever called the transport?
    clients,        \* number of constructor calls made so far
    fixtures_seen,  \* what this client's DEMO calls returned: {[name, result]}
    malformed_seen, \* how this client's calls that met a 200 response with a
                    \* body that is not JSON ended: {[signed, policy]}
    \* SpecGate
    now,            \* the clock, in ticks
    last_request_time,
    tpc,            \* per thread: where it is in _enforce_rate_limit
    wake,           \* per thread: when its sleep ends; once released, when it left
    released,       \* times at which requests left the gate, in order
    last_completed, \* when a request of this client last completed; -1: never
    pass            \* per thread, about its latest passage through the gate:
                    \*   seen       last_request_time as read at line 65
                    \*   at         when it left the gate; -1: not yet
                    \*   prev       when its passage before this one left; -1: none
                    \*   completed  last_completed at the moment it left

(***************************************************************************)
(* State of the other specifications.                                      *)
(***************************************************************************)
VARIABLES
    \* SpecInstances
    instances       \* per RootAPI instance: its last_request_time, and where
                    \* its caller is in _enforce_rate_limit (ipc, wake)

VARIABLES
    \* SpecGame (phoenix_bot)
    repo,           \* user repository: per user, chips and experience
    ucache,         \* Cache: per user, the entry set_user stored, if any
    sessions,       \* session repository: the sessions created, in order;
                    \* each also carries its history: the balances before it
                    \* was created, how often its stakes were released, and
                    \* whom finish_game credited
    tasks,          \* per coroutine: the service call it is in, with its locals
    calls,          \* number of service calls started
    marks           \* what has happened that is outside the plain game flow

gameVars == <<repo, ucache, sessions, tasks, calls, marks>>

VARIABLES
    \* SpecBonus (phoenix_bot, UserService.claim_daily_bonus)
    last_daily_bonus,   \* repository: per user, when the bonus was last
                        \* stamped (NoBonusYet for None)
    clock,              \* datetime.utcnow(), in hours
    claims,             \* per coroutine: where it is in claim_daily_bonus
    credits             \* history: per user, the times a bonus was credited

bonusVars == <<last_daily_bonus, clock, claims, credits>>

VARIABLES
    \* SpecChecker (ApiChecker)
    checker_keys,   \* self.api_keys: the names a key was given for
    working_apis,   \* self.working_apis: the names recorded as working
    failed_apis,    \* self.failed_apis: per name, the reason recorded
                    \* (NoReason when the name is not in the dict)
    submitted,      \* history: the names submitted for testing so far
    checks          \* number of check_all_apis calls that returned

checkerVars == <<checker_keys, working_apis, failed_apis, submitted, checks>>

\* the variables outside the client and the gate
laterVars == <<instances, gameVars, bonusVars, checkerVars>>

clientOwn ==
    <<variant, mode, demo_mode, api_key, secret_key, pc, call, stamp, wire, retries,
      attempts, log, result, net_touched, clients, fixtures_seen,
      malformed_seen>>
gateOwn ==
    <<now, last_request_time, tpc, wake, released, last_completed, pass>>
clientVars == <<clientOwn, laterVars>>
gateVars == <<gateOwn, laterVars>>
vars == <<clientOwn, gateOwn, laterVars>>

Instances == 1..NumInstances

\* __init__, lines 52-54: self.last_request_time = 0
NewInstance == [last_request_time |-> 0, ipc |-> "idle", wake |-> 0]

InstancesInit == instances = [i \in Instances |-> NewInstance]

Users == 1..NumUsers
Tasks == 1..NumTasks

UserRow(c, x) == [chips |-> c, experience |-> x]
NoCacheEntry == [present |-> FALSE, chips |-> 0, experience |-> 0]
IdleTask ==
    [op |-> "idle", pc |-> "", sid |-> 0, winner |-> 0, loser |-> 0, idx |-> 0,
     bet |-> 0, players |-> <<>>, w |-> UserRow(0, 0), l |-> UserRow(0, 0)]

\* every user registered with settings.game.initial_chips, nothing cached
GameInit ==
    /\ repo = [u \in Users |-> UserRow(INITIAL_CHIPS, 0)]
    /\ ucache = [u \in Users |-> NoCacheEntry]
    /\ sessions = <<>>
    /\ tasks = [t \in Tasks |-> IdleTask]
    /\ calls = 0
    /\ marks = {}

NoBonusYet == -1
IdleClaim == [pc |-> "idle", user |-> 0, now |-> 0, amount |-> 0]

BonusInit ==
    /\ last_daily_bonus = [u \in Users |-> NoBonusYet]
    /\ clock = 0
    /\ claims = [t \in Tasks |-> IdleClaim]
    /\ credits = [u \in Users |-> <<>>]

ApiNames == {"openai", "anthropic", "google"}
NoReason == ""

\* ApiChecker.__init__: the keys given, nothing recorded yet
NewChecker(keys) ==
    /\ checker_keys = keys
    /\ working_apis = {}
    /\ failed_apis = [n \in ApiNames |-> NoReason]
    /\ submitted = {}
    /\ checks = 0

\* outside SpecChecker the checker is one that was given no key
LaterInit == InstancesInit /\ GameInit /\ BonusInit /\ NewChecker({})

\* BingXClient(mode=...), config.MODE
Modes == {"swap", "spot"}
ApiKeys == {"", "ak"}
SecretKeys == {"", "sk"}
\* time.time() at construction: far from the 0 last_request_time starts with
StartTime == RATE_LIMIT_DELAY
Threads == 1..NumThreads

GateInit ==
    /\ now = StartTime
    /\ last_request_time = 0
    /\ tpc = [t \in Threads |-> "idle"]
    /\ wake = [t \in Threads |-> 0]
    /\ released = <<>>
    /\ last_completed = -1
    /\ pass = [t \in Threads |-> [seen |-> 0, at |-> -1, prev |-> -1, completed |-> -1]]

ClientInit ==
    /\ variant \in Variants
    /\ mode \in (IF variant = "BackupClient" THEN Modes ELSE {"swap"})
    /\ demo_mode \in (IF variant = "AppAPI" THEN BOOLEAN ELSE {FALSE})
    /\ api_key \in (IF variant = "AppAPI" THEN ApiKeys ELSE {"ak"})
    /\ secret_key \in (IF variant = "AppAPI" THEN SecretKeys ELSE {"sk"})
    /\ pc = "idle"
    /\ call = NoCall
    /\ stamp = ""
    /\ wire = NoWire
    /\ retries = 0
    /\ attempts = 0
    /\ log = <<>>
    /\ result = NoResult
    /\ net_touched = FALSE
    /\ clients = 1
    /\ fixtures_seen = {}
    /\ malformed_seen = {}

Init == ClientInit /\ GateInit /\ LaterInit

(***************************************************************************)
(* A typed operation is called.                                            *)
(***************************************************************************)
\* (a client whose demo branch is missing)
UsesFixture_Never(v, demo) == FALSE

\* (a client that answers from the fixtures only if it was given a secret)
UsesFixture_NeedsSecret(v, demo) == v = "AppAPI" /\ demo /\ secret_key # ""

\* _make_request, demo branch: is the call answered from the fixture table?
UsesFixture(v, demo) == v = "AppAPI" /\ demo

\* how a call that met a body that is not JSON ended: it raised, it returned
\* the raw text wrapped as a response, or something else
PolicyOf(r) ==
    IF r.kind = "raise" THEN "raise"
    ELSE IF r.data = "raw_response" THEN "raw"
    ELSE "other"

\* (a client that falls back to LIVE once it has been used)
ModeAfterCall_GoLive(demo, op) == FALSE

\* self.demo_mode after a typed operation: the operations and _make_request
\* read the attribute and never assign it
ModeAfterCall(demo, op) == demo

\* (RootAPI: the request part of the call, after _enforce_rate_limit, whose
\* timing is the subject of SpecGate)
Call(op, ts) ==
    /\ pc = "idle"
    /\ call' = op
    /\ stamp' = ts
    /\ attempts' = 0
    /\ log' = <<>>
    /\ IF UsesFixture(variant, demo_mode)
       THEN \* validate_credentials returns True, the rest _get_demo_data
            /\ result' = IF op.name = "validate_credentials"
                         THEN Return("bool", 0, "True")
                         ELSE DemoData(op.endpoint, ts)
            /\ pc' = "done"
            /\ fixtures_seen' =
                   fixtures_seen \cup {[name |-> op.name, result |-> result']}
            /\ UNCHANGED <<wire, retries>>
       ELSE IF variant = "BackupClient" /\ op.name = "get_positions" /\ mode = "spot"
       THEN \* get_positions: positions exist in swap mode only
            /\ result' = Return("None", 0, "")
            /\ pc' = "done"
            /\ UNCHANGED <<wire, retries, fixtures_seen>>
       ELSE IF variant = "AppAPI" /\ op.signed /\ secret_key = ""
       THEN \* _generate_signature: raise ValueError, outside the try
            /\ result' = Finish(variant, op.name, Raise("ValueError"))
            /\ pc' = "done"
            /\ UNCHANGED <<wire, retries, fixtures_seen>>
       ELSE /\ wire' = BuildWire(variant, op, ts, api_key, secret_key)
            /\ retries' = InitialRetries(variant)
            /\ result' = NoResult
            /\ pc' = "ready"
            /\ UNCHANGED fixtures_seen
    /\ demo_mode' = ModeAfterCall(demo_mode, op)
    /\ UNCHANGED <<variant, mode, api_key, secret_key, net_touched, clients,
                   malformed_seen, gateVars>>

\* the transport sends the request: one attempt
Transmit ==
    /\ pc = "ready"
    /\ pc' = "inflight"
    /\ attempts' = attempts + 1
    /\ net_touched' = TRUE
    /\ UNCHANGED <<variant, mode, demo_mode, api_key, secret_key, call, stamp, wire, retries,
                   log, result, clients, fixtures_seen, malformed_seen, gateVars>>

\* the server answers the attempt in flight
Respond(status, retry_after, body) ==
    /\ pc = "inflight"
    /\ IF variant = "RootAPI" /\ IsRetry(wire.method, status, retry_after, retries)
       THEN /\ log' = Append(log, Outcome("response", status, retry_after, ""))
            /\ IF Exhausted(retries)
               THEN /\ result' = Finish(variant, call.name, Raise("RetryError"))
                    /\ pc' = "done"
                    /\ UNCHANGED retries
               ELSE /\ retries' = retries - 1
                    /\ pc' = "ready"
                    /\ UNCHANGED result
            /\ UNCHANGED malformed_seen
       ELSE /\ log' = Append(log, Outcome("response", status, retry_after, body))
            /\ result' = Finish(variant, call.name, Handle(variant, status, body))
            /\ pc' = "done"
            /\ malformed_seen' =
                   IF status = 200 /\ body = "text"
                   THEN malformed_seen \cup
                          {[signed |-> call.signed, policy |-> PolicyOf(result')]}
                   ELSE malformed_seen
            /\ UNCHANGED retries
    /\ UNCHANGED <<variant, mode, demo_mode, api_key, secret_key, call, stamp, wire, attempts,
                   net_touched, clients, fixtures_seen, gateVars>>

\* the attempt in flight fails without a response; a timeout needs a
\* transport call that was given one
Fail(kind) ==
    /\ pc = "inflight"
    /\ kind \in {"connect_timeout", "read_timeout"} => wire.timeout # NoTimeout
    /\ log' = Append(log, Outcome(kind, 0, FALSE, ""))
    /\ IF variant = "RootAPI" /\ IsErrorRetry(wire.method, kind)
       THEN IF Exhausted(retries)
            THEN /\ result' = Finish(variant, call.name,
                                     TransportException(variant, kind, TRUE))
                 /\ pc' = "done"
                 /\ UNCHANGED retries
            ELSE /\ retries' = retries - 1
                 /\ pc' = "ready"
                 /\ UNCHANGED result
       ELSE /\ result' = Finish(variant, call.name,
                                TransportException(variant, kind, FALSE))
            /\ pc' = "done"
            /\ UNCHANGED retries
    /\ UNCHANGED <<variant, mode, demo_mode, api_key, secret_key, call, stamp, wire, attempts,
                   net_touched, clients, fixtures_seen, malformed_seen, gateVars>>

\* the caller takes the result; the client is ready for the next call
Finished ==
    /\ pc = "done"
    /\ pc' = "idle"
    /\ call' = NoCall
    /\ stamp' = ""
    /\ wire' = NoWire
    /\ retries' = 0
    /\ attempts' = 0
    /\ log' = <<>>
    /\ result' = NoResult
    /\ UNCHANGED <<variant, mode, demo_mode, api_key, secret_key, net_touched, clients,
                   fixtures_seen, malformed_seen, gateVars>>

Next ==
    \/ \E op \in OpsOf(variant), ts \in Stamps : Call(op, ts)
    \/ Transmit
    \/ \E r \in ServerResponses, b \in Bodies : Respond(r[1], r[2], b)
    \/ \E k \in FailureKinds : Fail(k)
    \/ Finished

Spec == Init /\ [][Next]_vars

(***************************************************************************)
(* SpecGate: threads sharing one RootAPI client pass _enforce_rate_limit   *)
(* and then hold a request in flight.  Each action is one statement of     *)
(* the method; the clock may tick between any two of them.                 *)
(***************************************************************************)
\* elapsed = time.time() - self.last_request_time
Elapsed(t_now, t_last) == t_now - t_last

\* (a gate that never waits)
MustSleep_Never(elapsed) == FALSE

\* if elapsed < self.rate_limit_delay: the thread will sleep
MustSleep(elapsed) == elapsed < RATE_LIMIT_DELAY

\* (a gate that measures and then does not wait)
SleepTime_None(elapsed) == 0

\* sleep_time = self.rate_limit_delay - elapsed
SleepTime(elapsed) == RATE_LIMIT_DELAY - elapsed

\* lines 65-68: measure, and go to sleep for rate_limit_delay - elapsed
EnterGate(t) ==
    /\ tpc[t] = "idle"
    /\ pass' = [pass EXCEPT ![t].seen = last_request_time]
    /\ IF MustSleep(Elapsed(now, last_request_time))
       THEN /\ tpc' = [tpc EXCEPT ![t] = "sleeping"]
            /\ wake' = [wake EXCEPT ![t] =
                          now + SleepTime(Elapsed(now, last_request_time))]
       ELSE /\ tpc' = [tpc EXCEPT ![t] = "stamping"]
            /\ UNCHANGED wake
    /\ UNCHANGED <<now, last_request_time, released, last_completed, clientVars>>

\* time.sleep returns once the sleep time has passed
WakeUp(t) ==
    /\ tpc[t] = "sleeping"
    /\ now >= wake[t]
    /\ tpc' = [tpc EXCEPT ![t] = "stamping"]
    /\ UNCHANGED <<now, last_request_time, wake, released, last_completed, pass,
                   clientVars>>

\* line 69: self.last_request_time = time.time(); the request is released
LeaveGate(t) ==
    /\ tpc[t] = "stamping"
    /\ last_request_time' = now
    /\ released' = Append(released, now)
    /\ tpc' = [tpc EXCEPT ![t] = "request"]
    /\ wake' = [wake EXCEPT ![t] = now]
    /\ pass' = [pass EXCEPT ![t] = [seen |-> @.seen, at |-> now, prev |-> @.at,
                                    completed |-> last_completed]]
    /\ UNCHANGED <<now, last_completed, clientVars>>

\* the request of the thread completes, at most MaxFlight ticks after release
Complete(t) ==
    /\ tpc[t] = "request"
    /\ tpc' = [tpc EXCEPT ![t] = "idle"]
    /\ last_completed' = now
    /\ UNCHANGED <<now, last_request_time, wake, released, pass, clientVars>>

Tick ==
    /\ now < StartTime + MaxTime
    /\ \A t \in Threads : tpc[t] = "request" => now < wake[t] + MaxFlight
    /\ now' = now + 1
    /\ UNCHANGED <<last_request_time, tpc, wake, released, last_completed, pass,
                   clientVars>>

GateNext ==
    \/ \E t \in Threads : EnterGate(t)
    \/ \E t \in Threads : WakeUp(t)
    \/ \E t \in Threads : LeaveGate(t)
    \/ \E t \in Threads : Complete(t)
    \/ Tick

GateSpecInit == Init /\ variant = "RootAPI"

SpecGate == GateSpecInit /\ [][GateNext]_vars

\* C2: any two requests released by one client are at least rate_limit_delay
\* apart, whatever the interleaving of the callers.
C2_GateSerializes ==
    \A i, j \in 1..Len(released) :
        i < j => released[j] - released[i] >= RATE_LIMIT_DELAY

\* C13: two requests of one caller on one client leave the gate at least
\* rate_limit_delay apart.
C13_BackToBackSpaced ==
    \A t \in Threads :
        (tpc[t] = "request" /\ pass[t].prev >= 0)
            => pass[t].at - pass[t].prev >= RATE_LIMIT_DELAY

\* a caller came back while its previous request was less than
\* rate_limit_delay old, and left the gate exactly rate_limit_delay after it
C13_Witness ==
    \E t \in Threads :
        /\ tpc[t] = "request" /\ pass[t].prev >= 0
        /\ pass[t].seen = pass[t].prev
        /\ pass[t].at - pass[t].prev = RATE_LIMIT_DELAY

\* C14 as stated: a request leaves the gate no sooner than rate_limit_delay
\* after the previous request of the client completed.
C14_SpacedFromCompletion ==
    \A t \in Threads :
        (tpc[t] = "request" /\ pass[t].completed >= 0)
            => pass[t].at - pass[t].completed >= RATE_LIMIT_DELAY

\* C14 amended: a request leaves the gate no sooner than rate_limit_delay
\* after the last_request_time its caller read on entering the gate, i.e.
\* after the moment the previous request LEFT the gate.
C14_SpacedFromRelease ==
    \A t \in Threads :
        tpc[t] = "request" => pass[t].at - pass[t].seen >= RATE_LIMIT_DELAY

\* a request took rate_limit_delay or longer, and the caller's next request
\* left the gate at the very moment the first one completed
C14_Witness ==
    \E t \in Threads :
        /\ tpc[t] = "request" /\ pass[t].prev >= 0
        /\ pass[t].seen = pass[t].prev
        /\ pass[t].completed = pass[t].at
        /\ pass[t].at - pass[t].seen >= RATE_LIMIT_DELAY

(***************************************************************************)
(* SpecInstances: NumInstances RootAPI instances in one process, each with *)
(* one caller going through _enforce_rate_limit under the common clock.    *)
(***************************************************************************)
\* (a last_request_time kept on the class, shared by all instances)
ClockOf_Shared(i) == 1

\* the instance whose last_request_time instance i reads and writes:
\* self.last_request_time is an attribute of the instance
ClockOf(i) == i

\* lines 65-68 on instance i
InstanceEnterGate(i) ==
    LET elapsed == Elapsed(now, instances[ClockOf(i)].last_request_time) IN
    /\ instances[i].ipc = "idle"
    /\ instances' =
          IF MustSleep(elapsed)
          THEN [instances EXCEPT ![i].ipc = "sleeping",
                                 ![i].wake = now + SleepTime(elapsed)]
          ELSE [instances EXCEPT ![i].ipc = "stamping"]
    /\ UNCHANGED <<clientOwn, gateOwn, gameVars, bonusVars, checkerVars>>

InstanceWakeUp(i) ==
    /\ instances[i].ipc = "sleeping"
    /\ now >= instances[i].wake
    /\ instances' = [instances EXCEPT ![i].ipc = "stamping"]
    /\ UNCHANGED <<clientOwn, gateOwn, gameVars, bonusVars, checkerVars>>

\* line 69 on instance i: self.last_request_time = time.time()
InstanceLeaveGate(i) ==
    /\ instances[i].ipc = "stamping"
    /\ instances' = [instances EXCEPT ![ClockOf(i)].last_request_time = now,
                                      ![i].ipc = "request",
                                      ![i].wake = now]
    /\ UNCHANGED <<clientOwn, gateOwn, gameVars, bonusVars, checkerVars>>

\* the request of instance i completes
InstanceComplete(i) ==
    /\ instances[i].ipc = "request"
    /\ instances' = [instances EXCEPT ![i].ipc = "idle"]
    /\ UNCHANGED <<clientOwn, gateOwn, gameVars, bonusVars, checkerVars>>

InstanceTick ==
    /\ now < StartTime + MaxTime
    /\ \A i \in Instances :
          instances[i].ipc = "request" => now < instances[i].wake + MaxFlight
    /\ now' = now + 1
    /\ UNCHANGED <<clientOwn, last_request_time, tpc, wake, released,
                   last_completed, pass, instances, gameVars, bonusVars,
                   checkerVars>>

InstancesNext ==
    \/ \E i \in Instances : InstanceEnterGate(i)
    \/ \E i \in Instances : InstanceWakeUp(i)
    \/ \E i \in Instances : InstanceLeaveGate(i)
    \/ \E i \in Instances : InstanceComplete(i)
    \/ InstanceTick

SpecInstances == GateSpecInit /\ [][InstancesNext]_vars

\* C21: a step of one instance changes nothing of another instance, and an
\* instance that waits in its gate waits for rate_limit_delay after its own
\* last request, whatever the other instances did.
C21_InstancesIndependent ==
    /\ [](\A i \in Instances :
            instances[i].ipc = "sleeping" =>
                instances[i].wake = instances[i].last_request_time + RATE_LIMIT_DELAY)
    /\ [][\A i, j \in Instances :
            (i # j /\ instances'[i] # instances[i]) => instances'[j] = instances[j]]_vars

\* two instances released a request at the same moment, both still in flight
C21_Witness ==
    \E i, j \in Instances :
        /\ i # j
        /\ instances[i].ipc = "request" /\ instances[j].ipc = "request"
        /\ instances[i].wake = instances[j].wake
        /\ instances[i].last_request_time = instances[j].last_request_time

(***************************************************************************)
(* SpecLifecycle: the application constructs a client, uses it, and        *)
(* replaces it by a newly constructed one (connect_with_credentials,       *)
(* start_demo_mode).  A LIVE call is followed up to its transmission; what *)
(* the server makes of it is the subject of Spec.                          *)
(***************************************************************************)
PLACEHOLDER_API_KEY == "YOUR_API_KEY_HERE"
PLACEHOLDER_SECRET == "YOUR_SECRET_HERE"
\* credentials a constructor may be handed ("" stands for None and '')
ApiKeyArgs == {"", PLACEHOLDER_API_KEY, "ak"}
SecretKeyArgs == {"", PLACEHOLDER_SECRET, "sk"}

\* __init__: does the constructor raise ValueError for these credentials?
\* Only BingXClient validates them.
ConstructorRaises(v, key, secret) ==
    /\ v = "BackupClient"
    /\ \/ key \in {"", PLACEHOLDER_API_KEY}
       \/ secret \in {"", PLACEHOLDER_SECRET}

LifecycleInit ==
    /\ variant \in Variants
    /\ mode = "swap"
    /\ demo_mode = FALSE
    /\ api_key = ""
    /\ secret_key = ""
    /\ pc = "new"
    /\ call = NoCall
    /\ stamp = ""
    /\ wire = NoWire
    /\ retries = 0
    /\ attempts = 0
    /\ log = <<>>
    /\ result = NoResult
    /\ net_touched = FALSE
    /\ clients = 0
    /\ fixtures_seen = {}
    /\ malformed_seen = {}
    /\ GateInit
    /\ LaterInit

\* self.api = BingXAPI(key, secret, demo_mode=demo) / BingXClient(): a new
\* client object takes the place of the previous one, if there was one
Construct(key, secret, demo) ==
    /\ pc \in {"new", "idle", "rejected"}
    /\ clients < MaxClients
    /\ demo => variant = "AppAPI"
    /\ clients' = clients + 1
    /\ api_key' = key
    /\ secret_key' = secret
    /\ demo_mode' = demo
    /\ net_touched' = FALSE
    /\ fixtures_seen' = {}
    /\ malformed_seen' = {}
    /\ IF ConstructorRaises(variant, key, secret)
       THEN pc' = "rejected" /\ result' = Raise("ValueError")
       ELSE pc' = "idle" /\ result' = NoResult
    /\ UNCHANGED <<variant, mode, call, stamp, wire, retries, attempts, log, gateVars>>

LifecycleNext ==
    \/ \E key \in ApiKeyArgs, secret \in SecretKeyArgs, demo \in BOOLEAN :
          Construct(key, secret, demo)
    \/ \E op \in OpsOf(variant), ts \in Stamps : Call(op, ts)
    \/ Transmit
    \/ Finished

SpecLifecycle == LifecycleInit /\ [][LifecycleNext]_vars

(***************************************************************************)
(* Properties of Spec.                                                     *)
(***************************************************************************)
LastOutcome == log[Len(log)]
Signatures(query) == {p \in Items(query) : p[1] = "signature"}
Keys(query) == {p[1] : p \in Items(query)}

\* C1: a DEMO client never touches the transport: no call of it is ever
\* waiting to be sent or in flight, and no attempt is ever counted.
C1_DemoNoNetwork ==
    demo_mode => ~net_touched /\ attempts = 0 /\ pc \in {"idle", "done"}
                 /\ wire = NoWire

C1_Witness ==
    /\ demo_mode /\ pc = "done" /\ call.name = "validate_credentials"
    /\ result = Return("bool", 0, "True")

\* C3 as stated: a call never makes more than 3 transport attempts.
C3_AtMostTotalAttempts == attempts <= RETRY_TOTAL

\* C3 amended: a call never makes more than 1 + 3 transport attempts (the
\* first attempt and at most total = 3 retries).
C3_AtMostTotalPlusOneAttempts == attempts <= RETRY_TOTAL + 1

C3_Witness ==
    /\ pc = "done" /\ attempts = RETRY_TOTAL + 1
    /\ result = Raise("RetryError")

\* C4: an attempt that got a response is followed by another attempt only
\* if the status of that response is 429, 500, 502, 503 or 504.
C4_RetryOnlyOnForcelist ==
    \A i \in 1..Len(log) :
        (i < attempts /\ log[i].kind = "response")
            => log[i].status \in STATUS_FORCELIST

\* C5: a call whose first attempt is answered 503, and whose second attempt
\* (if the client makes one) is answered 200 with a well-formed body, ends
\* with the parsed response after exactly 2 attempts.
C5_RetryThenSuccess ==
    ( /\ variant = "RootAPI" /\ pc = "done"
      /\ Len(log) >= 1
      /\ log[1] = Outcome("response", 503, FALSE, log[1].body)
      /\ Len(log) >= 2 => log[2] = Outcome("response", 200, FALSE, "ok") )
    => attempts = 2 /\ result = Return("dict", 0, "payload")

\* C6: every transport call of a LIVE client carries a timeout, so a call
\* in flight cannot wait forever for a silent server.
C6_EveryCallHasTimeout ==
    pc = "inflight" => wire.timeout # NoTimeout

C8_SignatureIgnoresOrder ==
    (pc \in {"ready", "inflight"} /\ call.signed) =>
        \A d \in Reorderings(call.params) :
            Signature(variant, d, stamp, secret_key)
                = Signature(variant, call.params, stamp, secret_key)

\* C9: a call that ended on a parsed body with a non-zero provider code
\* raises; it never returns.
C9_ProviderErrorRaises ==
    (pc = "done" /\ Len(log) > 0 /\ LastOutcome.body = "apierr")
        => result.kind = "raise"

\* C10: a call that ended on a connection failure, a timeout or a body that
\* is not JSON never returns a success value or a falsy value.
C10_FailureNotSwallowed ==
    ( /\ pc = "done" /\ Len(log) > 0
      /\ \/ LastOutcome.kind \in FailureKinds
         \/ LastOutcome.body = "text" )
    => ~( /\ result.kind = "return"
          /\ \/ result.code = 0
             \/ result.shape \in {"bool", "None"} )

\* exception classes that say "timeout" and classes that say "transport"
TimeoutErrorKinds == {"ReadTimeout", "ConnectTimeout", "TimeoutError"}
TransportErrorKinds == {"ConnectionError", "ClientConnectorError"}

\* C11: a call that ended on a refused connection raises an error of a
\* transport kind, a call that ended on a timeout raises an error of a
\* timeout kind; neither kind is the one a provider rejection raises.
C11_ErrorKindsDistinct ==
    (pc = "done" /\ Len(log) > 0) =>
        /\ LastOutcome.kind = "refused" =>
              result.kind = "raise" /\ result.exc \in TransportErrorKinds
        /\ LastOutcome.kind \in {"connect_timeout", "read_timeout"} =>
              result.kind = "raise" /\ result.exc \in TimeoutErrorKinds

BadApiKeys == {"", PLACEHOLDER_API_KEY}
BadSecrets == {"", PLACEHOLDER_SECRET}

\* C12: no LIVE client exists whose API key or secret key is empty or the
\* placeholder: its construction is rejected, and a rejected construction
\* has not touched the network.
C12_LiveRejectsBadKeys ==
    /\ (pc \notin {"new", "rejected"} /\ ~demo_mode) =>
           api_key \notin BadApiKeys /\ secret_key \notin BadSecrets
    /\ pc = "rejected" => ~net_touched

\* C15: within one client, two DEMO calls of the same operation with the
\* same arguments return the same data, whenever they are made.
C15_FixturesDeterministic ==
    \A a, b \in fixtures_seen : a.name = b.name => a.result = b.result

\* C16: a call that ended on a 200 response with an empty body returns a
\* successful empty payload.
C16_EmptyBodyIsSuccess ==
    ( /\ pc = "done" /\ Len(log) > 0
      /\ LastOutcome.kind = "response" /\ LastOutcome.status = 200
      /\ LastOutcome.body = "empty" )
    => result = Return("dict", 0, "{}")

C18_SecretNeverSent ==
    (pc \in {"ready", "inflight"} /\ secret_key # "") =>
        /\ wire.header \in {api_key, NoHeader}
        /\ wire.header # secret_key
        /\ \A p \in Items(wire.query) \ Signatures(wire.query) : p[2] # secret_key
        /\ \A p \in Signatures(wire.query) :
              /\ p[2] = Hmac(secret_key, p[2].msg)
              /\ \A q \in Items(p[2].msg) : q[2] # secret_key

C18_Witness ==
    /\ pc = "inflight" /\ call.signed /\ secret_key = "sk"
    /\ wire.header = "ak" /\ Len(call.params) >= 2

\* C19: whatever credentials a DEMO client was constructed with (none, the
\* placeholders, real ones), each of its calls, signed or not, ends with the
\* fixture of its endpoint: a value fixed by the operation and the clock.
C19_DemoIgnoresCredentials ==
    (demo_mode /\ pc = "done") =>
        result = IF call.name = "validate_credentials"
                 THEN Return("bool", 0, "True")
                 ELSE DemoData(call.endpoint, stamp)

\* a DEMO client without any key has answered a signed call
C19_Witness ==
    /\ demo_mode /\ pc = "done" /\ api_key = "" /\ secret_key = ""
    /\ call.signed /\ call.name = "get_income_history"

\* C20: the mode of a client never changes; the mode in use changes only in
\* a step that constructs a new client.
C20_ModeFixedAtConstruction ==
    [][demo_mode' # demo_mode => clients' = clients + 1]_vars

\* the second client of the application, a DEMO client, has been through a
\* call and is still in DEMO mode
C20_Witness ==
    /\ clients = 2 /\ demo_mode /\ pc = "done"
    /\ call.name = "place_order" /\ fixtures_seen # {}

\* C22: every value a call returns (rather than raises) is a mapping of the
\* normalized shape, with a code, a message and a payload.
C22_NormalizedShape ==
    (pc = "done" /\ result.kind = "return") => result.shape = "dict"

(***************************************************************************)
(* SpecGame: the phoenix_bot services over one user repository, one        *)
(* session repository and one cache.  start_game, finish_game and          *)
(* cancel_session are coroutines: each await is a step at which another    *)
(* coroutine may run.  The other calls run their awaits in one step.       *)
(***************************************************************************)
Bets == {5, MIN_BET}
Amounts == {MIN_BET}
Balances == {0, INITIAL_CHIPS}

Busy(t) == tasks[t].op # "idle"
AnyBusy == \E t \in Tasks : Busy(t)
OtherBusy(t) == \E o \in Tasks \ {t} : Busy(o)
Mark(m, cond) == IF cond THEN marks \cup {m} ELSE marks
SessionIds == 1..Len(sessions)
PlayersOf(s) == {sessions[s].players[1], sessions[s].players[2]}

\* Cache.set_user: the entry of the user becomes the entity handed in
CacheSet(c, u, row) ==
    [c EXCEPT ![u] = [present |-> TRUE, chips |-> row.chips,
                      experience |-> row.experience]]

NewSession(p1, p2, bet) ==
    [status |-> "waiting", players |-> <<p1, p2>>, bet |-> bet,
     before |-> [u \in Users |-> repo[u].chips], releases |-> 0,
     paid_to |-> {}]

\* GameService.create_session: both players are read first, each balance is
\* then written as the value read minus the bet, and both entities are cached
BalancesAfterCreate(p1, p2, bet) ==
    [repo EXCEPT ![p1].chips = repo[p1].chips - bet,
                 ![p2].chips = repo[p2].chips - bet]

CreateSession(p1, p2, bet) ==
    /\ calls < MaxCalls
    /\ Len(sessions) < MaxSessions
    /\ calls' = calls + 1
    /\ marks' = Mark("overlap", AnyBusy)
    /\ IF \/ repo[p1].chips < bet \/ repo[p2].chips < bet
          \/ bet < MIN_BET \/ bet > MAX_BET
       THEN UNCHANGED <<repo, ucache, sessions>>
       ELSE /\ sessions' = Append(sessions, NewSession(p1, p2, bet))
            /\ repo' = BalancesAfterCreate(p1, p2, bet)
            /\ ucache' = CacheSet(CacheSet(ucache, p1,
                                     UserRow(repo[p1].chips - bet, repo[p1].experience)),
                                  p2, UserRow(repo[p2].chips - bet, repo[p2].experience))
    /\ UNCHANGED tasks

\* a coroutine enters a call on session s: it reads the session and goes on
\* only when the status it read is the one the call requires
Enter(t, s, op, required, first, w, l) ==
    /\ ~Busy(t)
    /\ calls < MaxCalls
    /\ calls' = calls + 1
    /\ tasks' = IF sessions[s].status = required
                THEN [tasks EXCEPT ![t] =
                        [IdleTask EXCEPT !.op = op, !.pc = first, !.sid = s,
                                         !.winner = w, !.loser = l, !.idx = 1,
                                         !.bet = sessions[s].bet,
                                         !.players = sessions[s].players]]
                ELSE tasks

\* GameService.start_game
StartGame_Read(t, s) ==
    /\ Enter(t, s, "start_game", "waiting", "status", 0, 0)
    /\ marks' = Mark("overlap", OtherBusy(t))
    /\ UNCHANGED <<repo, ucache, sessions>>

StartGame_Status(t) ==
    /\ tasks[t].op = "start_game" /\ tasks[t].pc = "status"
    /\ sessions' = [sessions EXCEPT ![tasks[t].sid].status = "active"]
    /\ tasks' = [tasks EXCEPT ![t] = IdleTask]
    /\ UNCHANGED <<repo, ucache, calls, marks>>

\* GameService.finish_game
FinishGame_Read(t, s, w, l) ==
    /\ Enter(t, s, "finish_game", "active", "status", w, l)
    /\ marks' = Mark("outsider", ~({w, l} \subseteq PlayersOf(s)))
                   \cup Mark("overlap", OtherBusy(t))
    /\ UNCHANGED <<repo, ucache, sessions>>

FinishGame_Status(t) ==
    /\ tasks[t].op = "finish_game" /\ tasks[t].pc = "status"
    /\ sessions' = [sessions EXCEPT ![tasks[t].sid].status = "finished"]
    /\ tasks' = [tasks EXCEPT ![t].pc = "users"]
    /\ UNCHANGED <<repo, ucache, calls, marks>>

FinishGame_Users(t) ==
    /\ tasks[t].op = "finish_game" /\ tasks[t].pc = "users"
    /\ tasks' = [tasks EXCEPT ![t].w = repo[tasks[t].winner],
                              ![t].l = repo[tasks[t].loser],
                              ![t].pc = "pay"]
    /\ UNCHANGED <<repo, ucache, sessions, calls, marks>>

Pot(bet) == bet * 2

\* user_repository.get_by_id finds the user
Registered(u) == u \in Users

FinishGame_Pay(t) ==
    /\ tasks[t].op = "finish_game" /\ tasks[t].pc = "pay"
    /\ IF Registered(tasks[t].winner) /\ Registered(tasks[t].loser)
       THEN /\ repo' = [repo EXCEPT ![tasks[t].winner].chips =
                                        tasks[t].w.chips + Pot(tasks[t].bet)]
            /\ sessions' = [sessions EXCEPT
                               ![tasks[t].sid].releases = @ + 1,
                               ![tasks[t].sid].paid_to = @ \cup {tasks[t].winner}]
            /\ tasks' = [tasks EXCEPT ![t].w.chips = @ + Pot(tasks[t].bet),
                                      ![t].pc = "cache"]
       ELSE /\ tasks' = [tasks EXCEPT ![t] = IdleTask]
            /\ UNCHANGED <<repo, sessions>>
    /\ UNCHANGED <<ucache, calls, marks>>

FinishGame_Cache(t) ==
    /\ tasks[t].op = "finish_game" /\ tasks[t].pc = "cache"
    /\ ucache' = CacheSet(CacheSet(ucache, tasks[t].winner, tasks[t].w),
                          tasks[t].loser, tasks[t].l)
    /\ tasks' = [tasks EXCEPT ![t].pc = "experience"]
    /\ UNCHANGED <<repo, sessions, calls, marks>>

FinishGame_Experience(t) ==
    /\ tasks[t].op = "finish_game" /\ tasks[t].pc = "experience"
    /\ repo' = [repo EXCEPT ![tasks[t].winner].experience =
                                tasks[t].w.experience + (tasks[t].bet \div 10)]
    /\ tasks' = [tasks EXCEPT ![t] = IdleTask]
    /\ UNCHANGED <<ucache, sessions, calls, marks>>

\* GameService.cancel_session: the players are refunded one after the other,
\* each from a fresh read, and the status is written last
CancelSession_Read(t, s) ==
    /\ Enter(t, s, "cancel_session", "waiting", "refund", 0, 0)
    /\ marks' = Mark("overlap", OtherBusy(t))
    /\ UNCHANGED <<repo, ucache, sessions>>

CancelSession_Refund(t) ==
    /\ tasks[t].op = "cancel_session" /\ tasks[t].pc = "refund"
    /\ LET p == tasks[t].players[tasks[t].idx]
           row == UserRow(repo[p].chips + tasks[t].bet, repo[p].experience)
       IN  /\ repo' = [repo EXCEPT ![p] = row]
           /\ ucache' = CacheSet(ucache, p, row)
    /\ sessions' = IF tasks[t].idx = 1
                   THEN [sessions EXCEPT ![tasks[t].sid].releases = @ + 1]
                   ELSE sessions
    /\ tasks' = IF tasks[t].idx < Len(tasks[t].players)
                THEN [tasks EXCEPT ![t].idx = @ + 1]
                ELSE [tasks EXCEPT ![t].pc = "status"]
    /\ UNCHANGED <<calls, marks>>

CancelSession_Status(t) ==
    /\ tasks[t].op = "cancel_session" /\ tasks[t].pc = "status"
    /\ sessions' = [sessions EXCEPT ![tasks[t].sid].status = "cancelled"]
    /\ tasks' = [tasks EXCEPT ![t] = IdleTask]
    /\ UNCHANGED <<repo, ucache, calls, marks>>

\* AdminService.force_end_session: whatever the status is, it becomes
\* "cancelled"; no balance is touched
ForceEndSession(s) ==
    /\ calls < MaxCalls
    /\ calls' = calls + 1
    /\ sessions' = [sessions EXCEPT ![s].status = "cancelled"]
    /\ marks' = marks \cup {"force_end"} \cup Mark("overlap", AnyBusy)
    /\ UNCHANGED <<repo, ucache, tasks>>

\* AdminService.set_user_balance: the repository only, AdminService has no cache
SetUserBalance(u, b) ==
    /\ calls < MaxCalls
    /\ calls' = calls + 1
    /\ repo' = [repo EXCEPT ![u].chips = b]
    /\ marks' = marks \cup {"balance_op"} \cup Mark("overlap", AnyBusy)
    /\ UNCHANGED <<ucache, sessions, tasks>>

\* UserService.add_chips and remove_chips: repository, then cache
AddChips(u, a) ==
    /\ calls < MaxCalls
    /\ calls' = calls + 1
    /\ repo' = [repo EXCEPT ![u].chips = @ + a]
    /\ ucache' = CacheSet(ucache, u, repo'[u])
    /\ marks' = marks \cup {"balance_op"} \cup Mark("overlap", AnyBusy)
    /\ UNCHANGED <<sessions, tasks>>

RemoveChips(u, a) ==
    /\ calls < MaxCalls
    /\ calls' = calls + 1
    /\ marks' = marks \cup {"balance_op"} \cup Mark("overlap", AnyBusy)
    /\ IF repo[u].chips < a
       THEN UNCHANGED <<repo, ucache>>
       ELSE /\ repo' = [repo EXCEPT ![u].chips = @ - a]
            /\ ucache' = CacheSet(ucache, u, repo'[u])
    /\ UNCHANGED <<sessions, tasks>>

\* UserService.get_user: the cache entry when there is one, else the
\* repository's row, which is then cached
GetUser_Result(u) ==
    IF ucache[u].present THEN UserRow(ucache[u].chips, ucache[u].experience)
    ELSE repo[u]

GetUser(u) ==
    /\ calls < MaxCalls
    /\ calls' = calls + 1
    /\ ucache' = CacheSet(ucache, u, GetUser_Result(u))
    /\ marks' = Mark("overlap", AnyBusy)
    /\ UNCHANGED <<repo, sessions, tasks>>

\* what a step of the services leaves alone
GameFrame == UNCHANGED <<clientOwn, gateOwn, instances, bonusVars, checkerVars>>

GameNext ==
    \/ GameFrame /\ \E p1, p2 \in Users, bet \in Bets : CreateSession(p1, p2, bet)
    \/ GameFrame /\ \E t \in Tasks, s \in SessionIds : StartGame_Read(t, s)
    \/ GameFrame /\ \E t \in Tasks : StartGame_Status(t)
    \/ GameFrame /\ \E t \in Tasks, s \in SessionIds, w, l \in Users : FinishGame_Read(t, s, w, l)
    \/ GameFrame /\ \E t \in Tasks : FinishGame_Status(t)
    \/ GameFrame /\ \E t \in Tasks : FinishGame_Users(t)
    \/ GameFrame /\ \E t \in Tasks : FinishGame_Pay(t)
    \/ GameFrame /\ \E t \in Tasks : FinishGame_Cache(t)
    \/ GameFrame /\ \E t \in Tasks : FinishGame_Experience(t)
    \/ GameFrame /\ \E t \in Tasks, s \in SessionIds : CancelSession_Read(t, s)
    \/ GameFrame /\ \E t \in Tasks : CancelSession_Refund(t)
    \/ GameFrame /\ \E t \in Tasks : CancelSession_Status(t)
    \/ GameFrame /\ \E s \in SessionIds : ForceEndSession(s)
    \/ GameFrame /\ \E u \in Users, b \in Balances : SetUserBalance(u, b)
    \/ GameFrame /\ \E u \in Users, a \in Amounts : AddChips(u, a)
    \/ GameFrame /\ \E u \in Users, a \in Amounts : RemoveChips(u, a)
    \/ GameFrame /\ \E u \in Users : GetUser(u)

SpecGame == GateSpecInit /\ [][GameNext]_vars

(***************************************************************************)
(* Properties of SpecGame                                                  *)
(***************************************************************************)
RECURSIVE SumOver(_, _)
SumOver(f, S) ==
    IF S = {} THEN 0
    ELSE LET x == CHOOSE y \in S : TRUE IN f[x] + SumOver(f, S \ {x})

Staked(s) ==
    IF sessions[s].status \in {"waiting", "active"} THEN sessions[s].bet * 2 ELSE 0
TotalChips ==
    SumOver([u \in Users |-> repo[u].chips], Users)
       + SumOver([s \in SessionIds |-> Staked(s)], SessionIds)

\* C23: when only create_session, start_game, finish_game (winner and loser
\* being players of the session) and cancel_session have been called, one
\* after the other, the balances plus twice the bet of every session still
\* WAITING or ACTIVE add up to what the balances were at the start.
C23_ChipsConserved ==
    (marks = {} /\ ~AnyBusy) => TotalChips = NumUsers * INITIAL_CHIPS

\* C24: under any interleaving of start_game, finish_game and cancel_session
\* calls, the stakes of a session are released (paid out or refunded) at
\* most once.
C24_ReleasedOnce ==
    marks \subseteq {"overlap"} =>
        \A s \in SessionIds : sessions[s].releases <= 1

StatusChanges ==
    {<<"waiting", "active">>, <<"active", "finished">>, <<"waiting", "cancelled">>}

\* C25: every change of a session's status is WAITING to ACTIVE, ACTIVE to
\* FINISHED or WAITING to CANCELLED.
C25_StatusTransitions ==
    [][\A s \in SessionIds :
          sessions'[s].status # sessions[s].status =>
              <<sessions[s].status, sessions'[s].status>> \in StatusChanges]_vars

\* C26: after a successful create_session followed by a successful
\* cancel_session, with no other call made, every balance is what it was
\* before the create.
C26_CancelReturnsStakes ==
    (/\ calls = 2 /\ marks = {} /\ ~AnyBusy
     /\ Len(sessions) = 1 /\ sessions[1].status = "cancelled")
        => \A u \in Users : repo[u].chips = sessions[1].before[u]

\* C27: finish_game credits the pot of a session only to one of the
\* session's players.
C27_PotToPlayersOnly ==
    \A s \in SessionIds : sessions[s].paid_to \subseteq PlayersOf(s)

\* C30: once the calls made so far, one after the other, have completed,
\* get_user returns for every user the chips and experience the repository
\* holds.
C30_CacheCoherent ==
    ("overlap" \notin marks /\ ~AnyBusy) =>
        \A u \in Users : GetUser_Result(u) = repo[u]

(***************************************************************************)
(* SpecBonus: UserService.claim_daily_bonus, run by coroutines that may    *)
(* interleave at each await, with a clock that moves on between steps.     *)
(***************************************************************************)
ClockStep == DAY \div 2

\* referrals_count of the registered users
ReferralsOf(u) == u - 1

BonusAmount(referrals) ==
    IF referrals > 0
    THEN LET raised == DAILY_BONUS + referrals * REFERRAL_BONUS
             cap == DAILY_BONUS * MAX_DAILY_BONUS_MULTIPLIER
         IN  IF raised < cap THEN raised ELSE cap
    ELSE DAILY_BONUS

\* the check on the user read at the start: a stamp younger than a day
AlreadyClaimed(last, t) == last # NoBonusYet /\ t - last < DAY

\* the user is read, the time is taken and the check is made
ClaimDailyBonus_Read(t, u) ==
    /\ claims[t].pc = "idle"
    /\ calls < MaxCalls
    /\ calls' = calls + 1
    /\ claims' = IF AlreadyClaimed(last_daily_bonus[u], clock)
                 THEN claims
                 ELSE [claims EXCEPT ![t] =
                         [pc |-> "add_chips", user |-> u, now |-> clock,
                          amount |-> BonusAmount(ReferralsOf(u))]]
    /\ UNCHANGED <<repo, ucache, last_daily_bonus, clock, credits>>

\* add_chips(user_id, bonus_amount, "daily_bonus")
ClaimDailyBonus_AddChips(t) ==
    /\ claims[t].pc = "add_chips"
    /\ repo' = [repo EXCEPT ![claims[t].user].chips = @ + claims[t].amount]
    /\ ucache' = CacheSet(ucache, claims[t].user, repo'[claims[t].user])
    /\ credits' = [credits EXCEPT ![claims[t].user] = Append(@, clock)]
    /\ claims' = [claims EXCEPT ![t].pc = "stamp"]
    /\ UNCHANGED <<last_daily_bonus, clock, calls>>

\* user_repository.update(user_id, last_daily_bonus=now): it writes the time
\* taken at the start of the call, or fails and writes nothing
ClaimDailyBonus_Stamp(t, ok) ==
    /\ claims[t].pc = "stamp"
    /\ last_daily_bonus' = IF ok
                           THEN [last_daily_bonus EXCEPT ![claims[t].user] = claims[t].now]
                           ELSE last_daily_bonus
    /\ claims' = [claims EXCEPT ![t] = IdleClaim]
    /\ UNCHANGED <<repo, ucache, clock, credits, calls>>

BonusTick ==
    /\ clock + ClockStep <= MaxClock
    /\ clock' = clock + ClockStep
    /\ UNCHANGED <<repo, ucache, last_daily_bonus, claims, credits, calls>>

BonusFrame ==
    UNCHANGED <<clientOwn, gateOwn, instances, sessions, tasks, marks, checkerVars>>

BonusNext ==
    \/ BonusFrame /\ \E t \in Tasks, u \in Users : ClaimDailyBonus_Read(t, u)
    \/ BonusFrame /\ \E t \in Tasks : ClaimDailyBonus_AddChips(t)
    \/ BonusFrame /\ \E t \in Tasks, ok \in BOOLEAN : ClaimDailyBonus_Stamp(t, ok)
    \/ BonusFrame /\ BonusTick

SpecBonus == GateSpecInit /\ [][BonusNext]_vars

\* C28: two credits of the daily bonus to one user are at least 24 hours
\* apart.
C28_BonusOncePerDay ==
    \A u \in Users : \A i, j \in DOMAIN credits[u] :
        i < j => credits[u][j] - credits[u][i] >= DAY

(***************************************************************************)
(* SpecChecker: one ApiChecker, check_all_apis called again and again.     *)
(***************************************************************************)
TIMEOUT_REASON == "Timeout during checking"
FAILED_REASON == "Failed during checking"

\* the names check_all_apis makes a task for
Submitted(config, tested) == (config \cap checker_keys) \cap tested

\* check_all_apis(endpoints_config): config is the names configured, tested
\* those whose test_endpoint is not switched off, timed_out whether the
\* overall timeout fired, ok the names check_single_api returned True for
CheckAllApis(config, tested, timed_out, ok) ==
    /\ checks < MaxChecks
    /\ ok \subseteq Submitted(config, tested)
    /\ checks' = checks + 1
    /\ submitted' = submitted \cup Submitted(config, tested)
    /\ IF timed_out
       THEN /\ failed_apis' =
                  [n \in ApiNames |->
                      IF /\ n \in Submitted(config, tested)
                         /\ n \notin working_apis /\ failed_apis[n] = NoReason
                      THEN TIMEOUT_REASON ELSE failed_apis[n]]
            /\ UNCHANGED working_apis
       ELSE /\ working_apis' = working_apis \cup ok
            /\ failed_apis' =
                  [n \in ApiNames |->
                      IF n \in Submitted(config, tested) \ ok
                      THEN FAILED_REASON ELSE failed_apis[n]]
    /\ UNCHANGED checker_keys

CheckerNext ==
    /\ \E config \in SUBSET ApiNames, tested \in SUBSET ApiNames,
          timed_out \in BOOLEAN, ok \in SUBSET ApiNames :
          CheckAllApis(config, tested, timed_out, ok)
    /\ UNCHANGED <<clientOwn, gateOwn, instances, gameVars, bonusVars>>

CheckerSpecInit ==
    /\ ClientInit /\ variant = "RootAPI"
    /\ GateInit /\ InstancesInit /\ GameInit /\ BonusInit
    /\ \E keys \in SUBSET ApiNames : NewChecker(keys)

SpecChecker == CheckerSpecInit /\ [][CheckerNext]_vars

Failed == {n \in ApiNames : failed_apis[n] # NoReason}

\* C29: once check_all_apis calls have returned, every name that was
\* submitted is in exactly one of working_apis and failed_apis.
C29_ExactlyOneRecord ==
    checks > 0 =>
        \A n \in submitted : (n \in working_apis) # (n \in Failed)

====
